---------------------------- MODULE Spec2Model ----------------------------
(***************************************************************************)
(* Model of calc.py: monthly take-home pay of an employee and of a         *)
(* consultant for a given CTC, and the inverse search for the CTC that     *)
(* yields a desired take-home pay.                                         *)
(*                                                                         *)
(* Amounts.  calc.py computes in thousands of rupees with binary floats.   *)
(* Every amount the script forms from an integer CTC is a multiple of      *)
(* 1/10000 thousand (the finest factor is EMPLOYEE_PF_RATE = 0.2561), so   *)
(* the model keeps amounts as integers counting 1/Scale thousand and       *)
(* rates as integers counting 1/Scale; Rate(x, r) is the exact product.    *)
(* A CTC, a desired take-home pay and a monthly take-home pay are plain    *)
(* integers (thousands), as in the script.                                 *)
(***************************************************************************)
EXTENDS Integers, Sequences, FiniteSets, TLC

\* ------------------------------------------------------------------ bounds
\* Largest CTC (thousands) handed to print_take_home_for.
MaxIncome == 20010
\* Largest desired monthly take-home pay (thousands) handed to
\* print_ctc_for_take_home_pay; the smallest is -2.
MaxTarget == 56
\* Cap of the search loop's counter (the loop of calc.py has none).
MaxCtc == 1000

\* ------------------------------------------------------- number encoding
Scale == 10000

\* n thousand as an amount.
K(n) == n * Scale

\* x * r for an amount x and a rate r (both counted in 1/Scale), rounded
\* down to a whole count; split so that no intermediate product leaves
\* 32 bits.
Rate(x, r) == (x \div Scale) * r + ((x % Scale) * r) \div Scale

\* Whether x * r is a whole count, i.e. Rate(x, r) loses nothing.
RateExact(x, r) == ((x % Scale) * r) % Scale = 0

Min(a, b) == IF a <= b THEN a ELSE b

\* ---------------------------------------------------------- configuration
EMPLOYEE_PF_RATE == 2561
PROFESSIONAL_TAX == 25000
PRESUMPTIVE_RATE == 5000
EMPLOYEE_TAX_DEDUCTION == 160
SLAB_1 == 250
SLAB_2 == 500
SLAB_3 == 1000

lakh(amount) == amount * 100

\* ---------------------------------------------------------------- slabs
income_tax_slab_1(income) ==
  IF income <= K(SLAB_1) THEN 0
  ELSE LET capped == IF income > K(SLAB_2) THEN K(SLAB_2) ELSE income
       IN  Rate(capped - K(SLAB_1), 500)

\* income_tax_slab_2 without line 85 (income -= SLAB_2).
income_tax_slab_2_no_subtract(income) ==
  IF income <= K(SLAB_2) THEN 0
  ELSE LET capped == IF income > K(SLAB_3) THEN K(SLAB_3) ELSE income
       IN  Rate(capped, 2000)

income_tax_slab_2(income) ==
  IF income <= K(SLAB_2) THEN 0
  ELSE LET capped == IF income > K(SLAB_3) THEN K(SLAB_3) ELSE income
       IN  Rate(capped - K(SLAB_2), 2000)

\* income_tax_slab_3 without line 92 (income -= SLAB_3).
income_tax_slab_3_no_subtract(income) ==
  IF income <= K(SLAB_3) THEN 0
  ELSE Rate(income, 3000)

income_tax_slab_3(income) ==
  IF income <= K(SLAB_3) THEN 0
  ELSE Rate(income - K(SLAB_3), 3000)

\* The sum of the three slabs (the local `tax` of income_tax_for).
slab_sum(income) ==
  income_tax_slab_1(income) + income_tax_slab_2(income) + income_tax_slab_3(income)

\* surcharge_for with the comparison of line 106 turned round.
surcharge_for_reversed(income, tax) ==
  IF income <= K(lakh(50)) THEN Rate(tax, 1000) ELSE 0

\* The surcharge income_tax_for adds to a slab sum `tax`.
surcharge_for(income, tax) ==
  IF income >= K(lakh(50)) THEN Rate(tax, 1000) ELSE 0

\* income_tax_for with < for the <= of line 99.
income_tax_for_strict(income) ==
  IF income < K(500) THEN 0
  ELSE LET tax  == slab_sum(income)
           cess == Rate(tax, 400)
       IN  tax + cess + surcharge_for(income, tax)

income_tax_for(income) ==
  IF income <= K(500) THEN 0
  ELSE LET tax  == slab_sum(income)
           cess == Rate(tax, 400)
       IN  tax + cess + surcharge_for(income, tax)

\* prints_warning with > for the >= of line 104.
prints_warning_strict(income) ==
  IF income <= K(500) THEN FALSE ELSE income > K(lakh(100))

\* Whether income_tax_for(income) prints its warning line.
prints_warning(income) ==
  IF income <= K(500) THEN FALSE ELSE income >= K(lakh(100))

income_and_professional_tax_for(income) ==
  income_tax_for(income) + PROFESSIONAL_TAX

\* taxable_income with the deduction taken on both branches.
taxable_income_deduct_both(income, is_employee) ==
  IF is_employee THEN income - K(EMPLOYEE_TAX_DEDUCTION)
  ELSE Rate(income, PRESUMPTIVE_RATE) - K(EMPLOYEE_TAX_DEDUCTION)

\* taxable_income without line 118 (income *= PRESUMPTIVE_RATE).
taxable_income_no_presumptive(income, is_employee) ==
  IF is_employee THEN income - K(EMPLOYEE_TAX_DEDUCTION)
  ELSE income

\* The income total_tax_for hands to income_and_professional_tax_for.
taxable_income(income, is_employee) ==
  IF is_employee THEN income - K(EMPLOYEE_TAX_DEDUCTION)
  ELSE Rate(income, PRESUMPTIVE_RATE)

total_tax_for(income, is_employee) ==
  income_and_professional_tax_for(taxable_income(income, is_employee))

pf_for(income) == Rate(Min(income, K(15)), EMPLOYEE_PF_RATE)

\* floor_div_12 with int() for math.floor: rounds toward zero.
trunc_div_12(amount) ==
  IF amount >= 0 THEN amount \div (12 * Scale)
  ELSE 0 - ((0 - amount) \div (12 * Scale))

\* math.floor(amount / 12) for an amount: the largest integer (thousands)
\* not above amount / 12.
floor_div_12(amount) == amount \div (12 * Scale)

\* One call take_home(income, is_employee): its arguments, its locals after
\* line 129, what it returns, and whether the call printed the warning.
take_home_call(income, is_employee) ==
  LET tax == total_tax_for(income, is_employee)
      pf  == IF is_employee THEN pf_for(income) ELSE 0
      net == income - tax - pf
  IN  [ income      |-> income,
        is_employee |-> is_employee,
        taxable     |-> taxable_income(income, is_employee),
        tax         |-> tax,
        pf          |-> pf,
        net         |-> net,
        result      |-> floor_div_12(net),
        warned      |-> prints_warning(taxable_income(income, is_employee)) ]

take_home(income, is_employee) == take_home_call(income, is_employee).result

\* search_continues with <= for the < of line 145.
search_continues_le(c, desired, is_employee) ==
  take_home(K(c), is_employee) <= desired

\* The while condition of ctc_for_take_home_pay (ctc and the target are
\* integers, in thousands).
search_continues(c, desired, is_employee) ==
  take_home(K(c), is_employee) < desired

\* ------------------------------------------------------------------ state
VARIABLES
  pc,                   \* the line of the report function about to run
  income,               \* argument of print_take_home_for (thousands)
  desired_take_home,    \* argument of print_ctc_for_take_home_pay (thousands)
  call,                 \* the last call of take_home
  take_home_employee,   \* locals of print_take_home_for
  take_home_consultant,
  ctc,                  \* loop counter of ctc_for_take_home_pay
  ctc_employee,         \* locals of print_ctc_for_take_home_pay
  ctc_consultant

vars == << pc, income, desired_take_home, call, take_home_employee,
           take_home_consultant, ctc, ctc_employee, ctc_consultant >>

Incomes == 0 .. MaxIncome
Targets == (0 - 2) .. MaxTarget

\* A local that is not assigned yet reads 0 (and `call` reads NoCall); pc
\* tells which locals are assigned.
NoCall ==
  [ income |-> 0, is_employee |-> FALSE, taxable |-> 0, tax |-> 0, pf |-> 0,
    net |-> 0, result |-> 0, warned |-> FALSE ]

Init ==
  /\ \/ /\ pc = "l139"
        /\ income \in Incomes
        /\ desired_take_home = 0
        /\ ctc = 0
     \/ /\ pc = "l150"
        /\ income = 0
        /\ desired_take_home \in Targets
        /\ ctc = 1
  /\ call = NoCall
  /\ take_home_employee = 0
  /\ take_home_consultant = 0
  /\ ctc_employee = 0
  /\ ctc_consultant = 0

\* ---------------------------------------------------- print_take_home_for
TakeHomeEmployee ==
  /\ pc = "l139"
  /\ call' = take_home_call(K(income), TRUE)
  /\ take_home_employee' = call'.result
  /\ pc' = "l140"
  /\ UNCHANGED << income, desired_take_home, take_home_consultant, ctc,
                  ctc_employee, ctc_consultant >>

TakeHomeConsultant ==
  /\ pc = "l140"
  /\ call' = take_home_call(K(income), FALSE)
  /\ take_home_consultant' = call'.result
  /\ pc' = "l141"
  /\ UNCHANGED << income, desired_take_home, take_home_employee, ctc,
                  ctc_employee, ctc_consultant >>

PrintTakeHome ==
  /\ pc = "l141"
  /\ pc' = "done"
  /\ UNCHANGED << income, desired_take_home, call, take_home_employee,
                  take_home_consultant, ctc, ctc_employee, ctc_consultant >>

\* -------------------------------------------- print_ctc_for_take_home_pay
\* LoopEmployee without line 146 (ctc += 1).
LoopEmployee_no_increment ==
  /\ pc = "l150"
  /\ search_continues(ctc, desired_take_home, TRUE)
  /\ ctc < MaxCtc
  /\ call' = take_home_call(K(ctc), TRUE)
  /\ UNCHANGED << pc, income, desired_take_home, take_home_employee,
                  take_home_consultant, ctc, ctc_employee, ctc_consultant >>

\* One test of the while condition that succeeds, and the body (ctc += 1).
LoopEmployee ==
  /\ pc = "l150"
  /\ search_continues(ctc, desired_take_home, TRUE)
  /\ ctc < MaxCtc
  /\ call' = take_home_call(K(ctc), TRUE)
  /\ ctc' = ctc + 1
  /\ UNCHANGED << pc, income, desired_take_home, take_home_employee,
                  take_home_consultant, ctc_employee, ctc_consultant >>

\* The test that fails, and the return; the consultant's search starts.
ReturnEmployee ==
  /\ pc = "l150"
  /\ ~ search_continues(ctc, desired_take_home, TRUE)
  /\ call' = take_home_call(K(ctc), TRUE)
  /\ ctc_employee' = ctc
  /\ ctc' = 1
  /\ pc' = "l151"
  /\ UNCHANGED << income, desired_take_home, take_home_employee,
                  take_home_consultant, ctc_consultant >>

LoopConsultant ==
  /\ pc = "l151"
  /\ search_continues(ctc, desired_take_home, FALSE)
  /\ ctc < MaxCtc
  /\ call' = take_home_call(K(ctc), FALSE)
  /\ ctc' = ctc + 1
  /\ UNCHANGED << pc, income, desired_take_home, take_home_employee,
                  take_home_consultant, ctc_employee, ctc_consultant >>

ReturnConsultant ==
  /\ pc = "l151"
  /\ ~ search_continues(ctc, desired_take_home, FALSE)
  /\ call' = take_home_call(K(ctc), FALSE)
  /\ ctc_consultant' = ctc
  /\ pc' = "l152"
  /\ UNCHANGED << income, desired_take_home, take_home_employee,
                  take_home_consultant, ctc, ctc_employee >>

PrintCtc ==
  /\ pc = "l152"
  /\ pc' = "done"
  /\ UNCHANGED << income, desired_take_home, call, take_home_employee,
                  take_home_consultant, ctc, ctc_employee, ctc_consultant >>

Next ==
  \/ TakeHomeEmployee
  \/ TakeHomeConsultant
  \/ PrintTakeHome
  \/ LoopEmployee
  \/ ReturnEmployee
  \/ LoopConsultant
  \/ ReturnConsultant
  \/ PrintCtc

Spec == Init /\ [][Next]_vars

\* The script is one thread that runs every statement it reaches.
LiveSpec == Spec /\ WF_vars(Next)

\* ================================================================ properties
\* `call` holds a call take_home(income, .) made by print_take_home_for.
Called == pc \in {"l140", "l141"}

\* Every product the call formed is a whole count of 1/Scale, so the
\* integer amounts of the model are the exact values of the quantities the
\* script computes.
AmountsExact ==
  Called =>
    LET x == call.taxable
        t == slab_sum(x)
    IN  /\ RateExact(call.income, PRESUMPTIVE_RATE)
        /\ RateExact(Min(call.income, K(15)), EMPLOYEE_PF_RATE)
        /\ x > K(SLAB_1) => RateExact(Min(x, K(SLAB_2)) - K(SLAB_1), 500)
        /\ x > K(SLAB_2) => RateExact(Min(x, K(SLAB_3)) - K(SLAB_2), 2000)
        /\ x > K(SLAB_3) => RateExact(x - K(SLAB_3), 3000)
        /\ RateExact(t, 400)
        /\ RateExact(t, 1000)

\* The tax regime of a taxable income: 0 up to 500 (no income tax), 1 above
\* 500 and below 5000 (slabs and cess), 2 from 5000 on (surcharge as well).
Regime(x) == IF x <= 5000000 THEN 0 ELSE IF x < 50000000 THEN 1 ELSE 2

\* The CTC one thousand above the call's.
NextIncome == call.income + 10000

\* ------------------------------------------------------------------- C1
\* C1 as stated: take_home is non-decreasing in CTC for both
\* classifications; the take-home pay at a CTC is at most the take-home
\* pay at the CTC one thousand higher.
C1_TakeHomeNonDecreasing ==
  Called => call.result <= take_home(NextIncome, call.is_employee)

\* C1 as amended: take_home is non-decreasing in CTC between two CTCs whose
\* taxable incomes lie in the same tax regime (both at most 500, both above
\* 500 and below 5000, or both at least 5000).  Taxable income grows with
\* CTC, so a regime is an interval of CTCs and the step from a CTC to the
\* next one covers every pair a <= b inside it.
C1_NonDecreasingWithinRegime ==
  Called =>
    (Regime(call.taxable) = Regime(taxable_income(NextIncome, call.is_employee))
       => call.result <= take_home(NextIncome, call.is_employee))

\* The employee at CTC 661, just past the rebate limit: take-home pay 53
\* (54 at CTC 660), and CTC 662 is in the same regime.
C1_Witness ==
  /\ Called
  /\ call.is_employee
  /\ call.income = 6610000
  /\ call.result = 53
  /\ take_home(6600000, TRUE) = 54
  /\ Regime(call.taxable) = Regime(taxable_income(NextIncome, TRUE))

\* ------------------------------------------------------------------- C8
\* C8: tax amounts are non-negative and non-decreasing in income, for
\* income_tax_for (at the CTC taken as an income, and at the taxable income
\* of the call) and for total_tax_for of each classification.
C8_TaxNonNegativeNonDecreasing ==
  Called =>
    /\ 0 <= income_tax_for(call.income)
    /\ income_tax_for(call.income) <= income_tax_for(NextIncome)
    /\ 0 <= call.tax
    /\ call.tax <= total_tax_for(NextIncome, call.is_employee)
    /\ call.taxable >= 0 =>
         /\ 0 <= call.tax - PROFESSIONAL_TAX
         /\ call.tax - PROFESSIONAL_TAX <= income_tax_for(call.taxable + 5000)

\* The consultant at CTC 9999: the tax rises on the way to CTC 10000, where
\* the surcharge sets in.
C8_Witness ==
  /\ Called
  /\ ~ call.is_employee
  /\ call.income = 99990000
  /\ call.tax > PROFESSIONAL_TAX
  /\ call.tax < total_tax_for(NextIncome, FALSE)

\* ------------------------------------------------------------------- C4
\* The slab sum of the reference rule for a taxable income x above 500,
\* in closed form: 5% of 250..500, 20% of 500..1000, 30% above 1000.
RefSlabSum(x) ==
  (5000000 - 2500000) \div 20
    + (Min(x, 10000000) - 5000000) \div 5
    + (IF x > 10000000 THEN (3 * (x - 10000000)) \div 10 ELSE 0)

\* The reference rule: 0 up to 500; else T + 4% of T + S, where S is 10% of
\* T from 5000 on and 0 below.
RefIncomeTax(x) ==
  IF x <= 5000000 THEN 0
  ELSE LET T == RefSlabSum(x)
       IN  T + T \div 25 + (IF x >= 50000000 THEN T \div 10 ELSE 0)

\* C4: income_tax_for matches the reference rule, at the CTC taken as an
\* income and at the taxable income the call computed the tax of;
\* income_tax_for(400) = 0 and income_tax_for(600) = 33.8.
C4_IncomeTaxMatchesRule ==
  Called =>
    /\ income_tax_for(call.income) = RefIncomeTax(call.income)
    /\ call.tax - PROFESSIONAL_TAX = RefIncomeTax(call.taxable)
    /\ call.taxable > 5000000 =>
         /\ RefSlabSum(call.taxable) = slab_sum(call.taxable)
         /\ RefSlabSum(call.taxable) % 50 = 0
    /\ income_tax_for(4000000) = 0
    /\ income_tax_for(6000000) = 338000

\* The employee at CTC 660: taxable income exactly 500, no income tax.
C4_Witness ==
  /\ Called
  /\ call.is_employee
  /\ call.taxable = 5000000
  /\ call.tax = PROFESSIONAL_TAX
  /\ income_tax_for(call.taxable + 10000) = 132080

\* ------------------------------------------------------------------- C5
\* The slab boundaries, and the most income_tax_for may rise over one
\* thousand of income inside the bracket entered at each (rate plus its
\* 4% cess on 1.0): 0.052 at 250, 0.208 at 500, 0.312 at 1000.
AtBoundary == call.taxable \in {2500000, 5000000, 10000000}

MarginalAbove(b) ==
  IF b = 2500000 THEN 520 ELSE IF b = 5000000 THEN 2080 ELSE 3120

\* The same for the bracket that ends at the boundary.
MarginalBelow(b) ==
  IF b = 2500000 THEN 0 ELSE IF b = 5000000 THEN 520 ELSE 2080

\* The income tax the call computed (its total tax less professional tax).
CallIncomeTax == call.tax - PROFESSIONAL_TAX

\* C5 as stated: at each boundary B in {250, 500, 1000} the step from B to
\* B + 1 raises income_tax_for by no more than the marginal amount of the
\* bracket entered, and the tax at B is within the lower bracket's marginal
\* amount of the tax at B - 1.
C5_ContinuousAtEveryBoundary ==
  Called /\ AtBoundary =>
    /\ income_tax_for(call.taxable + 10000) - CallIncomeTax
         <= MarginalAbove(call.taxable)
    /\ CallIncomeTax - income_tax_for(call.taxable - 10000)
         <= MarginalBelow(call.taxable)

\* C5 as amended: income_tax_for is continuous at 250 and at 1000, and at
\* 500 from below (it is 0 up to and including 500); from 500 to 501 it
\* jumps by 13.208: the slab-1 amount 12.5 and its cess 0.5, which the
\* rule for incomes up to 500 waives, on top of the marginal 0.208.
C5_ContinuousExceptAbove500 ==
  Called /\ AtBoundary =>
    /\ call.taxable # 5000000 =>
         income_tax_for(call.taxable + 10000) - CallIncomeTax
           <= MarginalAbove(call.taxable)
    /\ CallIncomeTax - income_tax_for(call.taxable - 10000)
         <= MarginalBelow(call.taxable)
    /\ call.taxable = 5000000 =>
         /\ CallIncomeTax = 0
         /\ income_tax_for(call.taxable + 10000) = 125000 + 5000 + 2080

\* The consultant at CTC 2000: taxable income exactly 1000, income tax 117,
\* and 117.312 one thousand of taxable income higher.
C5_Witness ==
  /\ Called
  /\ ~ call.is_employee
  /\ call.taxable = 10000000
  /\ CallIncomeTax = 1170000
  /\ income_tax_for(call.taxable + 10000) = 1173120

\* ------------------------------------------------------------------- C6
\* amount / 12 truncated toward zero, in thousands.
TruncDiv12(amount) ==
  IF amount >= 0 THEN amount \div 120000 ELSE 0 - ((0 - amount) \div 120000)

\* net_annual of the claim: income - total_tax_for - pf, with
\* pf = min(income, 15) * 0.2561 for an employee and 0 for a consultant.
NetAnnual ==
  call.income - total_tax_for(call.income, call.is_employee)
    - (IF call.is_employee THEN (Min(call.income, 150000) \div 10000) * 2561 ELSE 0)

C7_TotalTaxByClassification ==
  Called =>
    /\ call.is_employee =>
         /\ call.tax = income_tax_for(call.income - 1600000) + 25000
         /\ call.tax = RefIncomeTax(call.income - 1600000) + 25000
         /\ call.income < 1600000 => call.tax = 25000
         /\ call.income = 10000000 =>
              /\ call.taxable = 8400000
              /\ call.pf = 38415
              /\ call.tax = 837200 + 25000
    /\ ~ call.is_employee =>
         /\ 2 * (call.income \div 2) = call.income
         /\ call.tax = income_tax_for(call.income \div 2) + 25000
         /\ call.tax = RefIncomeTax(call.income \div 2) + 25000
         /\ call.pf = 0

\* take_home(1000, employee): taxable income 840, total tax 86.22.
C7_Witness ==
  /\ Called
  /\ call.is_employee
  /\ call.income = 10000000
  /\ call.taxable = 8400000
  /\ call.tax = 862200
  /\ call.result = 75

\* ------------------------------------------------------------------- C9
\* C9: the call of income_tax_for inside take_home prints the warning
\* exactly when its income is at least 10000, i.e. from employee CTC 10160
\* and consultant CTC 20000 on; the tax returned then is 1.14 times the
\* slab sum (cess 4% and the unchanged 10% surcharge).
C9_WarningFromOneCrore ==
  Called =>
    /\ call.warned <=> (call.taxable >= 100000000)
    /\ call.is_employee => (call.warned <=> call.income >= 101600000)
    /\ ~ call.is_employee => (call.warned <=> call.income >= 200000000)
    /\ call.warned =>
         LET T == RefSlabSum(call.taxable)
         IN  /\ T % 50 = 0
             /\ CallIncomeTax = T + (T \div 50) * 7

\* The consultant at CTC 20000: taxable income exactly 1 crore, warned.
C9_Witness ==
  /\ Called
  /\ ~ call.is_employee
  /\ call.income = 200000000
  /\ call.taxable = 100000000
  /\ call.warned
  /\ CallIncomeTax = (28125000 \div 50) * 57

\* ------------------------------------------------------------------ C10
\* C10: at the same CTC the consultant's total tax is at most the
\* employee's and the consultant's take-home pay is at least the
\* employee's; for the same target the consultant's CTC is at most the
\* employee's.
C10_ConsultantNeverWorseOff ==
  /\ pc = "l141" =>
       /\ ~ call.is_employee
       /\ call.income = K(income)
       /\ call.tax <= total_tax_for(K(income), TRUE)
       /\ take_home_consultant >= take_home_employee
  /\ pc = "l152" => ctc_consultant <= ctc_employee

\* Target 50, the script's own: employee CTC 607, consultant CTC 603.
C10_Witness ==
  /\ pc = "l152"
  /\ desired_take_home = 50
  /\ ctc_employee = 607
  /\ ctc_consultant = 603

\* ------------------------------------------------------------------- C2
\* C2: what ctc_for_take_home_pay returns is an integer c >= 1 with
\* take_home(c) >= target and take_home(k) < target for every 1 <= k < c.
MinimalCtc(c, is_employee) ==
  /\ c \in Nat
  /\ c >= 1
  /\ take_home(K(c), is_employee) >= desired_take_home
  /\ \A k \in 1 .. (c - 1) : take_home(K(k), is_employee) < desired_take_home

C2_SearchReturnsMinimum ==
  pc = "l152" =>
    /\ MinimalCtc(ctc_employee, TRUE)
    /\ MinimalCtc(ctc_consultant, FALSE)

\* Target 56: the employee's search passes the drop at CTC 661 and returns
\* 700; CTC 699 fails.
C2_Witness ==
  /\ pc = "l152"
  /\ desired_take_home = 56
  /\ ctc_employee = 700
  /\ take_home(K(699), TRUE) < 56
  /\ ctc_consultant > 1

\* ------------------------------------------------------------------- C3
\* C3: the inverse search terminates: print_ctc_for_take_home_pay, once
\* entered, reaches its print with both searches returned.
C3_SearchTerminates == (pc = "l150") ~> (pc = "l152")

\* The report for target 56 has printed: the searches returned after 700
\* and 675 tests, far below the cap of the model.
C3_Witness ==
  /\ pc = "done"
  /\ desired_take_home = 56
  /\ ctc_employee = 700
  /\ ctc_consultant = 675
  /\ ctc_employee < MaxCtc

=============================================================================
